---- MODULE Spec2Model ----
(***************************************************************************)
(* A model of wrk-api-bench: the Wrk wrapper (src/src/wrk.rs) with its     *)
(* history directory, best-run selection and variance computation          *)
(* (src/src/result.rs).                                                    *)
(*                                                                         *)
(* Numbers.  Every f64 metric v is held as the integer v * Scale (fixed    *)
(* point), so that fractional values exist and `as i64` is a truncation.   *)
(* A percentage computed by Variance::calculate is held as an exact        *)
(* fraction [n, d] in lowest terms, or as Inf / NaN when the code divides  *)
(* by zero.                                                                *)
(*                                                                         *)
(* Time.  The clock counts ticks, TicksPerSec to the second.  A date       *)
(* string in DATE_FORMAT has one-second resolution and is held as the      *)
(* number of whole seconds.                                                *)
(*                                                                         *)
(* The date field of a WrkResult is modelled as wrk.rs uses it (lines 322  *)
(* and 363): the date string of the bench() call that produced the run.    *)
(***************************************************************************)
EXTENDS Integers, Sequences, FiniteSets, TLC

VARIABLES
    now,                 \* the system clock, in ticks
    history_dir,         \* the directory: "absent", "present", or "blocked"
                         \* (absent, and it cannot be created)
    dir,                 \* the files of history_dir: file name -> content
    byMtime,             \* the names of dir, oldest modification time first
    benchmarks,          \* Wrk.benchmarks
    benchmarks_history,  \* Wrk.benchmarks_history
    benchmark_date,      \* Wrk.benchmark_date: <<>> (None) or <<date string>>
    ret,                 \* what the call that was the last step returned
    calls                \* how many calls have been made so far

vars ==
    <<now, history_dir, dir, byMtime, benchmarks, benchmarks_history,
      benchmark_date, ret, calls>>

---------------------------------------------------------------------------
(* Bounds *)

Scale == 2          \* fixed-point denominator of an f64 metric
TicksPerSec == 2    \* clock resolution
MaxLen == 2         \* longest sequence of runs handed to the selector
MaxProfile == 1     \* how many non-zero metric profiles the inputs draw from
MaxCalls == 3       \* longest sequence of calls the system model follows

F(x) == x * Scale   \* the whole number x as an f64

---------------------------------------------------------------------------
(* WrkResult *)

Metrics ==
    {"requests", "errors", "successes", "requests_sec", "avg_latency_ms",
     "min_latency_ms", "max_latency_ms", "stdev_latency_ms", "transfer_mb",
     "errors_connect", "errors_read", "errors_write", "errors_status",
     "errors_timeout"}

BenchmarkDefault == [threads |-> 0, connections |-> 0, duration |-> 0]

\* impl Default for WrkResult; date is the caller's clock reading
WrkResultDefault(date) ==
    [success |-> FALSE, error |-> "", benchmark |-> BenchmarkDefault,
     date |-> date,
     requests |-> 0, errors |-> 0, successes |-> 0, requests_sec |-> 0,
     avg_latency_ms |-> 0, min_latency_ms |-> 0, max_latency_ms |-> 0,
     stdev_latency_ms |-> 0, transfer_mb |-> 0, errors_connect |-> 0,
     errors_read |-> 0, errors_write |-> 0, errors_status |-> 0,
     errors_timeout |-> 0]

\* WrkResult::fail
WrkResultFail(error, date) == [WrkResultDefault(date) EXCEPT !.error = error]

---------------------------------------------------------------------------
(* best_benchmark *)

\* `x as i64` for a non-negative f64
AsI64(v) == v \div Scale

\* Ordering::cmp on two i64: -1 (Less), 0 (Equal), 1 (Greater)
Cmp(x, y) == IF x < y THEN -1 ELSE IF x > y THEN 1 ELSE 0

\* Ordering::then
Then(o, p) == IF o # 0 THEN o ELSE p

\* the comparator closure handed to max_by
CompareRuns(a, b) ==
    Then(Then(Then(Then(
        Cmp(AsI64(a.requests_sec), AsI64(b.requests_sec)),
        Cmp(AsI64(a.successes), AsI64(b.successes))),
        Cmp(AsI64(a.requests), AsI64(b.requests))),
        Cmp(AsI64(a.requests), AsI64(b.requests))),
        Cmp(AsI64(a.transfer_mb), AsI64(b.transfer_mb)))

\* mutant of KeepRun: the filter dropped
KeepRunAll(v) == TRUE

\* .filter(|v| *v.success())
KeepRun(v) == v.success

RECURSIVE MaxBy(_, _, _)
\* Iterator::max_by as a fold: the later element wins unless the earlier one
\* compares Greater, so of several equal maxima the last is returned
MaxBy(s, i, best) ==
    IF i > Len(s) THEN best
    ELSE MaxBy(s, i + 1, IF CompareRuns(best, s[i]) = 1 THEN best ELSE s[i])

NoRun == [none |-> TRUE]

\* mutant of BestBenchmark: an empty selection answered with a zeroed run
BestBenchmarkOrDefault(bs) ==
    LET kept == SelectSeq(bs, KeepRun)
    IN IF Len(kept) = 0
       THEN [status |-> "ok", run |-> WrkResultDefault(0)]
       ELSE [status |-> "ok", run |-> MaxBy(kept, 2, kept[1])]

\* Wrk::best_benchmark: [status |-> "ok", run |-> r] or the Stats error
BestBenchmark(bs) ==
    LET kept == SelectSeq(bs, KeepRun)
    IN IF Len(kept) = 0
       THEN [status |-> "Stats", run |-> NoRun]
       ELSE [status |-> "ok", run |-> MaxBy(kept, 2, kept[1])]

---------------------------------------------------------------------------
(* Variance *)

RECURSIVE Gcd(_, _)
Gcd(a, b) == IF b = 0 THEN a ELSE Gcd(b, a % b)

Abs(x) == IF x < 0 THEN -x ELSE x

\* the fraction n/d (d > 0) in lowest terms
Frac(n, d) ==
    LET g == Gcd(Abs(n), d)
    IN [n |-> n \div g, d |-> d \div g]

NaN == [nan |-> TRUE]
Inf == [inf |-> TRUE]

\* mutant of Calculate: the change taken relative to the new value
CalculateOverNew(new, old) ==
    IF new = 0
    THEN (IF old = 0 THEN NaN ELSE Inf)
    ELSE Frac((new - old) * 100, new)

\* Variance::calculate, (new - old) / old * 100.0 in f64 arithmetic; the
\* metrics are non-negative, so x / 0 is +inf for x > 0 and NaN for x = 0
Calculate(new, old) ==
    IF old = 0
    THEN (IF new = 0 THEN NaN ELSE Inf)
    ELSE Frac((new - old) * 100, old)

\* Variance::new
VarianceNew(new, old) ==
    [variance |->
        [success |-> FALSE, error |-> "", benchmark |-> BenchmarkDefault,
         date |-> new.date,
         requests |-> Calculate(new.requests, old.requests),
         errors |-> Calculate(new.errors, old.errors),
         successes |-> Calculate(new.successes, old.successes),
         requests_sec |-> Calculate(new.requests_sec, old.requests_sec),
         avg_latency_ms |-> Calculate(new.avg_latency_ms, old.avg_latency_ms),
         min_latency_ms |-> Calculate(new.min_latency_ms, old.min_latency_ms),
         max_latency_ms |-> Calculate(new.max_latency_ms, old.max_latency_ms),
         stdev_latency_ms |-> Calculate(new.stdev_latency_ms, old.stdev_latency_ms),
         transfer_mb |-> Calculate(new.transfer_mb, old.transfer_mb),
         errors_connect |-> Calculate(new.errors_connect, old.errors_connect),
         errors_read |-> Calculate(new.errors_read, old.errors_read),
         errors_write |-> Calculate(new.errors_write, old.errors_write),
         errors_status |-> Calculate(new.errors_status, old.errors_status),
         errors_timeout |-> Calculate(new.errors_timeout, old.errors_timeout)],
     new |-> new,
     old |-> old]

---------------------------------------------------------------------------
(* The calls on a Wrk instance that read its two run lists *)

NoRet == [op |-> "none", status |-> "none"]

\* a panic ends the process: nothing more is called on the instance
Alive == ret.status # "panic"

\* Wrk::best
Best ==
    /\ Alive
    /\ ret' = [op |-> "best"] @@ BestBenchmark(benchmarks)
    /\ UNCHANGED <<now, history_dir, dir, byMtime, benchmarks, benchmarks_history, benchmark_date>>

\* Wrk::historical_best
HistoricalBest ==
    /\ Alive
    /\ ret' = [op |-> "historical_best"] @@ BestBenchmark(benchmarks_history)
    /\ UNCHANGED <<now, history_dir, dir, byMtime, benchmarks, benchmarks_history, benchmark_date>>

\* Wrk::variance
Variance ==
    /\ Alive
    /\ LET new == BestBenchmark(benchmarks)
           old == BestBenchmark(benchmarks_history)
       IN ret' =
            IF new.status # "ok" THEN [op |-> "variance", status |-> new.status]
            ELSE IF old.status # "ok" THEN [op |-> "variance", status |-> old.status]
            ELSE [op |-> "variance", status |-> "ok",
                  value |-> VarianceNew(new.run, old.run)]
    /\ UNCHANGED <<now, history_dir, dir, byMtime, benchmarks, benchmarks_history, benchmark_date>>

---------------------------------------------------------------------------
(* SpecSel: the selector and the variance on bounded inputs.  The two run  *)
(* lists are set through the public setters to any bounded sequence of     *)
(* runs, as a history file or a caller may supply them.                    *)

\* a run whose four selection keys are given, the other metrics taken from
\* profile k (k = 0: all zero; k > 0: distinct non-zero values)
Sample(success, rs, su, rq, tr, k) ==
    [WrkResultDefault(0) EXCEPT
        !.success = success,
        !.requests_sec = rs, !.successes = su, !.requests = rq, !.transfer_mb = tr,
        !.errors = k, !.avg_latency_ms = 3 * k, !.min_latency_ms = 2 * k,
        !.max_latency_ms = 7 * k, !.stdev_latency_ms = 5 * k,
        !.errors_connect = 11 * k, !.errors_read = 13 * k,
        !.errors_write = 17 * k, !.errors_status = 19 * k,
        !.errors_timeout = 23 * k]

\* successful runs covering every tie-break level, with whole and fractional
\* requests_sec
KeyRuns ==
    { Sample(TRUE, rs, su, rq, tr, 0) :
        rs \in {F(1), F(1) + 1, F(2)}, su \in {F(1), F(2)},
        rq \in {F(2), F(3)}, tr \in {0, F(1)} }

\* runs for the variance: the 150-against-100 pair, with profiled metrics
ProfiledRuns ==
    { Sample(TRUE, rs, F(90), F(100), F(4), k) :
        rs \in {F(100), F(150)}, k \in 0..MaxProfile }

\* runs with success = false: the failed execution, and runs whose metrics
\* would beat every successful run
FailedRuns ==
    { WrkResultFail("wrk failed", 0),
      Sample(FALSE, F(200), F(90), F(100), F(4), 0),
      Sample(FALSE, F(2), F(2), F(3), F(1), 0) }

RECURSIVE SeqsUpTo(_, _)
SeqsUpTo(S, n) ==
    IF n = 0 THEN {<<>>}
    ELSE LET shorter == SeqsUpTo(S, n - 1)
         IN shorter \cup { Append(s, x) : s \in {t \in shorter : Len(t) = n - 1}, x \in S }

InitSel ==
    /\ now = 0
    /\ history_dir = "absent"
    /\ dir = <<>>
    /\ byMtime = <<>>
    /\ benchmarks \in SeqsUpTo(KeyRuns \cup ProfiledRuns \cup FailedRuns, MaxLen)
    /\ benchmarks_history \in SeqsUpTo(ProfiledRuns \cup FailedRuns, 1)
    /\ benchmark_date = <<>>
    /\ ret = NoRet
    /\ calls = 0

NextSel ==
    \/ Best /\ UNCHANGED calls
    \/ HistoricalBest /\ UNCHANGED calls
    \/ Variance /\ UNCHANGED calls

SpecSel == InitSel /\ [][NextSel]_vars

---------------------------------------------------------------------------
(* Dates and periods *)

HourSecs == 3600       \* time::Duration::HOUR
DaySecs == 86400       \* time::Duration::DAY
WeekSecs == 604800     \* time::Duration::WEEK

\* date.format(&format) with DATE_FORMAT: the instant cut to whole seconds
FormatDate(t) == t \div TicksPerSec

\* OffsetDateTime::parse(date_str, &format): the instant of a date string
ParseDate(d) == d * TicksPerSec

\* time::Duration of s seconds, in ticks
Secs(s) == s * TicksPerSec

\* enum HistoryPeriod
HistoryPeriod == {"Last", "Hour", "Day", "Week", "Month"}

\* mutant of HistoryPeriodLast: a month of thirty days
HistoryPeriodLastThirtyDays(period, t) ==
    CASE period = "Last" -> t
      [] period = "Hour" -> t - Secs(HourSecs)
      [] period = "Day" -> t - Secs(DaySecs)
      [] period = "Week" -> t - Secs(WeekSecs)
      [] period = "Month" -> t - Secs(DaySecs) * 30

\* HistoryPeriod::last, t being the reading of OffsetDateTime::now_utc()
HistoryPeriodLast(period, t) ==
    CASE period = "Last" -> t
      [] period = "Hour" -> t - Secs(HourSecs)
      [] period = "Day" -> t - Secs(DaySecs)
      [] period = "Week" -> t - Secs(WeekSecs)
      [] period = "Month" -> t - Secs(WeekSecs) * 4

\* the clock readings the model visits: the first seconds, and the same
\* seconds one period later, for every period
Instants ==
    { Secs(b) + e : b \in {0, HourSecs},
                    e \in 0..TicksPerSec }

---------------------------------------------------------------------------
(* The history directory *)

\* format!("result.{}.json", date), as its dot-separated components
FileName(date) == <<"result", date, "json">>

\* path.file_name().split('.').nth(1), parsed
FileDate(name) == ParseDate(name[2])

\* the second component of a file name that is no date ("result.tmp.json")
NotADate == -1

\* OffsetDateTime::parse(date_str, &format) succeeds
IsDate(d) == d >= 0

\* files that do not follow the result.<date>.json convention: a name with
\* no dot, and a name whose second component is no date
StrayNames == { <<"README">>, FileName(NotADate) }

\* the file is a record: it deserializes to a list of runs
IsRecord(name) == name \notin StrayNames

Last(s) == s[Len(s)]
Front(s) == SubSeq(s, 1, Len(s) - 1)

\* the listing after `name` was written or touched: it has the latest
\* modification time
Modified(listing, name) ==
    Append(SelectSeq(listing, LAMBDA n : n # name), name)

---------------------------------------------------------------------------
(* bench *)

MaxFiles == 2       \* most files the history directory holds
MaxRuns == 2        \* most runs a Wrk instance collects

\* WrkBuilder::default_max_error_percentage
MaxErrorPercentage == 2

\* what wrk printed after the JSON marker, deserialized: the done() function
\* prints no success, error, benchmark or date, so these take their defaults
JsonOutput(rs, requests, errors) ==
    [WrkResultDefault(0) EXCEPT
        !.requests_sec = rs, !.requests = requests, !.errors = errors,
        !.successes = requests - errors, !.transfer_mb = F(4)]

\* what the execution of one configuration can come to
Outcomes ==
    { [kind |-> "spawn_error", text |-> "No such file or directory (os error 2)"],
      [kind |-> "exit_failure", text |-> "unable to connect to localhost:13734"],
      [kind |-> "exit_failure", text |-> ""],     \* killed, nothing on stderr
      [kind |-> "no_marker", text |-> ""],
      [kind |-> "bad_json", text |-> "expected value at line 1 column 1"],
      [kind |-> "json", json |-> JsonOutput(F(1000), F(100), 0)],
      [kind |-> "json", json |-> JsonOutput(F(1200), F(100), 0)],
      [kind |-> "json", json |-> JsonOutput(F(2000), F(100), F(2))],
      \* output that carries a success field of its own
      [kind |-> "json", json |-> [JsonOutput(F(2000), F(100), F(2))
                                     EXCEPT !.success = TRUE]] }

\* Wrk::wrk_result on output that deserializes: errors / 100.0 * requests
\* compared with max_error_percentage; success is set, never cleared
WrkResultOf(run) ==
    IF run.errors * run.requests < MaxErrorPercentage * 100 * Scale * Scale
    THEN [run EXCEPT !.success = TRUE]
    ELSE run

\* the run bench() pushes for one outcome (not for no_marker, which returns)
RunOf(o, date) ==
    LET run == IF o.kind = "json" THEN WrkResultOf(o.json)
               ELSE WrkResultFail(o.text, date)
    IN [run EXCEPT !.date = date]

\* the configurations executed before bench() returns early: all of them, or
\* those before the first output without the JSON marker
RECURSIVE Executed(_)
Executed(outs) ==
    IF outs = <<>> \/ Head(outs).kind = "no_marker" THEN <<>>
    ELSE <<Head(outs)>> \o Executed(Tail(outs))

\* Wrk::dump: File::create truncates a file of the same name
Dump(date, content) ==
    /\ dir' = [n \in DOMAIN dir \cup {FileName(date)} |->
                 IF n = FileName(date) THEN content ELSE dir[n]]
    /\ byMtime' = Modified(byMtime, FileName(date))

\* fs::create_dir(history_dir) when the directory does not exist
CreateDir(d) == IF d = "absent" THEN "present" ELSE d

\* what bench() returns, with the configurations it was called with (by what
\* their executions come to) and how many of them were executed
BenchRet(status, outs) ==
    [op |-> "bench", status |-> status, configs |-> outs,
     executed |-> Len(Executed(outs))]

\* mutant of Bench: the record is written after every run instead of after
\* the loop
BenchDumpEach(outs) ==
    /\ Alive
    /\ Len(benchmarks) + Len(outs) <= MaxRuns
    /\ FileName(FormatDate(now)) \in DOMAIN dir \/ Cardinality(DOMAIN dir) < MaxFiles
    /\ LET date == FormatDate(now)
           done == Executed(outs)
           runs == [i \in 1..Len(done) |-> RunOf(done[i], date)]
       IN /\ history_dir' = CreateDir(history_dir)
          /\ benchmark_date' = <<date>>
          /\ benchmarks' = benchmarks \o runs
          /\ IF history_dir' # "present"
             THEN /\ ret' = BenchRet("Io", outs)
                  /\ UNCHANGED <<dir, byMtime>>
             ELSE /\ ret' = BenchRet(IF Len(done) < Len(outs) THEN "Lua" ELSE "ok", outs)
                  /\ IF done = <<>> /\ outs # <<>>
                     THEN UNCHANGED <<dir, byMtime>>
                     ELSE Dump(date, benchmarks')
    /\ UNCHANGED <<now, benchmarks_history>>

\* Wrk::bench, outs being what the configurations' executions come to
Bench(outs) ==
    /\ Alive
    /\ Len(benchmarks) + Len(outs) <= MaxRuns
    /\ FileName(FormatDate(now)) \in DOMAIN dir \/ Cardinality(DOMAIN dir) < MaxFiles
    /\ LET date == FormatDate(now)
           done == Executed(outs)
           runs == [i \in 1..Len(done) |-> RunOf(done[i], date)]
       IN /\ history_dir' = CreateDir(history_dir)
          /\ benchmark_date' = <<date>>
          /\ benchmarks' = benchmarks \o runs
          /\ IF Len(done) < Len(outs)
             THEN /\ ret' = BenchRet("Lua", outs)
                  /\ UNCHANGED <<dir, byMtime>>
             ELSE IF history_dir' # "present"
             THEN /\ ret' = BenchRet("Io", outs)
                  /\ UNCHANGED <<dir, byMtime>>
             ELSE /\ ret' = BenchRet("ok", outs)
                  /\ Dump(date, benchmarks')
    /\ UNCHANGED <<now, benchmarks_history>>

---------------------------------------------------------------------------
(* load *)

\* the clock advances while a windowed load reads the directory: by a
\* second and a tick between two of its readings
LoadAdvance == {TicksPerSec + 1}

\* the period == Last branch of Wrk::load; paths is the sorted listing
LoadLast ==
    IF byMtime = <<>>
    THEN \* paths.pop().unwrap() on an empty listing
         /\ ret' = [op |-> "load", period |-> "Last", status |-> "panic"]
         /\ UNCHANGED benchmarks_history
    ELSE LET first == Last(byMtime)
             paths == Front(byMtime)
             history == dir[first]
         IN IF ~IsRecord(first)
            THEN \* serde_json::from_reader(..)? on a file that is no record
                 /\ ret' = [op |-> "load", period |-> "Last", status |-> "Serde"]
                 /\ UNCHANGED benchmarks_history
            ELSE IF history = <<>>
            THEN \* history.pop().unwrap() on an empty record
                 /\ ret' = [op |-> "load", period |-> "Last", status |-> "panic"]
                 /\ UNCHANGED benchmarks_history
            ELSE LET date_str == Last(history).date
                     again == /\ benchmark_date # <<>>
                              /\ benchmark_date[1] = date_str
                              /\ paths # <<>>
                 IN IF again /\ ~IsRecord(Last(paths))
                    THEN /\ ret' = [op |-> "load", period |-> "Last",
                                    status |-> "Serde"]
                         /\ UNCHANGED benchmarks_history
                    ELSE /\ benchmarks_history' =
                               IF again THEN dir[Last(paths)] ELSE Front(history)
                         /\ ret' = [op |-> "load", period |-> "Last", status |-> "ok",
                                    first |-> first,
                                    used |-> IF again THEN Last(paths) ELSE first]

\* what the windowed branch does with one file, period.last() being read at
\* t: the file is passed over, the load returns an error, or the file's best
\* run is taken
Examine(name, period, t) ==
    IF Len(name) < 2 THEN "skip"                \* split('.').nth(1) is None
    ELSE IF ~IsDate(name[2]) THEN "Parse"       \* OffsetDateTime::parse(..)?
    ELSE IF FileDate(name) < HistoryPeriodLast(period, t) THEN "skip"
    ELSE IF BestBenchmark(dir[name]).status # "ok" THEN "Stats"
    ELSE "take"

\* the files a windowed load takes a run from: the i-th file of the listing
\* is compared with period.last() at the clock reading at[i]
InWindow(period, at) ==
    SelectSeq([i \in 1..Len(byMtime) |-> <<byMtime[i], at[i]>>],
              LAMBDA e : Examine(e[1], period, e[2]) = "take")

\* the windowed branch of Wrk::load, the clock advancing by adv after the
\* first k files; the first error in the order of the listing is returned
LoadWindow(period, k, adv) ==
    LET at == [i \in 1..Len(byMtime) |-> IF i <= k THEN now ELSE now + adv]
        verdict == [i \in 1..Len(byMtime) |-> Examine(byMtime[i], period, at[i])]
        errors == {i \in 1..Len(byMtime) : verdict[i] \in {"Parse", "Stats"}}
        opened == InWindow(period, at)
        finish == IF k < Len(byMtime) THEN now + adv ELSE now
    IN /\ now' = finish
       /\ IF errors # {}
          THEN /\ ret' = [op |-> "load", period |-> period,
                          status |-> verdict[CHOOSE i \in errors :
                                                 \A j \in errors : i <= j],
                          start |-> now, finish |-> finish]
               /\ UNCHANGED benchmarks_history
          ELSE /\ benchmarks_history' =
                     [i \in 1..Len(opened) |-> BestBenchmark(dir[opened[i][1]]).run]
               /\ ret' = [op |-> "load", period |-> period, status |-> "ok",
                          start |-> now, finish |-> finish,
                          loaded |-> {opened[i][1] : i \in 1..Len(opened)}]

\* Wrk::load
Load(period) ==
    /\ Alive
    /\ history_dir' = CreateDir(history_dir)
    /\ IF history_dir' # "present"
       THEN /\ ret' = [op |-> "load", period |-> period, status |-> "Io"]
            /\ UNCHANGED <<now, benchmarks_history>>
       ELSE IF period = "Last"
       THEN LoadLast /\ UNCHANGED now
       ELSE \E k \in 0..Len(byMtime), adv \in LoadAdvance :
                /\ k > 0 \/ byMtime = <<>>
                /\ LoadWindow(period, k, adv)
    /\ UNCHANGED <<dir, byMtime, benchmarks, benchmark_date>>

---------------------------------------------------------------------------
(* The environment, and the whole system *)

\* ret is what the call that was the last step returned; after a step of the
\* environment no call is the last step (a panicked process stays dead)
Idle == IF Alive THEN NoRet ELSE ret

\* time passes, up to one of the readings of S
TickIn(S) ==
    /\ \E t \in S : t > now /\ now' = t
    /\ ret' = Idle
    /\ UNCHANGED <<history_dir, dir, byMtime, benchmarks, benchmarks_history,
                   benchmark_date, calls>>

Tick == TickIn(Instants)

\* a file of the directory is rewritten in place (copied back, restored,
\* touched): only its modification time changes
Touch(name) ==
    /\ name \in DOMAIN dir
    /\ name # Last(byMtime)
    /\ byMtime' = Modified(byMtime, name)
    /\ ret' = Idle
    /\ UNCHANGED <<now, history_dir, dir, benchmarks, benchmarks_history,
                   benchmark_date, calls>>

\* the process ends and a new Wrk is built: WrkBuilder defaults
Restart ==
    /\ benchmarks' = <<>>
    /\ benchmarks_history' = <<>>
    /\ benchmark_date' = <<>>
    /\ ret' = NoRet
    /\ UNCHANGED <<now, history_dir, dir, byMtime, calls>>

\* the configuration lists bench() is called with, by what their executions
\* come to: every list of at most one configuration, and the lists of two
\* whose first execution succeeds, fails, or prints no JSON marker
BenchInputs ==
    SeqsUpTo(Outcomes, 1) \cup
    { <<o, [kind |-> "json", json |-> JsonOutput(F(1200), F(100), 0)]>> :
        o \in { [kind |-> "json", json |-> JsonOutput(F(1000), F(100), 0)],
                [kind |-> "exit_failure", text |-> "unable to connect to localhost:13734"],
                [kind |-> "no_marker", text |-> ""] } }

Init ==
    /\ now = 0
    /\ history_dir \in {"absent", "blocked"}
    /\ dir = <<>>
    /\ byMtime = <<>>
    /\ benchmarks = <<>>
    /\ benchmarks_history = <<>>
    /\ benchmark_date = <<>>
    /\ ret = NoRet
    /\ calls = 0

\* one more call is made, within the model's budget of calls
Call == calls < MaxCalls /\ calls' = calls + 1

Next ==
    \/ \E outs \in BenchInputs : Bench(outs) /\ Call
    \/ \E period \in HistoryPeriod : Load(period) /\ Call
    \/ Variance /\ Call
    \/ Tick
    \/ \E name \in DOMAIN dir : Touch(name)
    \/ Restart

Spec == Init /\ [][Next]_vars

---------------------------------------------------------------------------
(* SpecBench: bench() alone, called again and again on one Wrk *)

\* the lists of Spec, and a list whose second execution prints no JSON marker
BenchAloneInputs ==
    BenchInputs \cup
    { << [kind |-> "json", json |-> JsonOutput(F(1000), F(100), 0)],
         [kind |-> "no_marker", text |-> ""] >> }

NextBench ==
    \/ \E outs \in BenchAloneInputs : Bench(outs) /\ UNCHANGED calls
    \/ Tick

SpecBench == Init /\ [][NextBench]_vars

---------------------------------------------------------------------------
(* SpecLoad: load() by a new Wrk on the directories of a bounded family *)

\* the file names of the family: records of the first two seconds and of one
\* hour later, and the files that are no records
LoadNames == { FileName(d) : d \in {0, 1, HourSecs} } \cup StrayNames

\* what a file of the family holds: a record holds no run or one run (the
\* execution succeeded, or failed), dated as the file; other files hold no
\* runs
ContentsOf(name) ==
    IF IsRecord(name)
    THEN { <<>> } \cup
         { <<RunOf(o, name[2])>> :
             o \in { [kind |-> "json", json |-> JsonOutput(F(1000), F(100), 0)],
                     [kind |-> "json", json |-> JsonOutput(F(1200), F(100), 0)],
                     [kind |-> "exit_failure",
                      text |-> "unable to connect to localhost:13734"] } }
    ELSE { <<>> }

Directories ==
    UNION { { d \in [N -> UNION { ContentsOf(n) : n \in N }] :
                \A n \in N : d[n] \in ContentsOf(n) } :
            N \in { M \in SUBSET LoadNames : Cardinality(M) <= MaxFiles } }

\* the orders of modification time the files of N can have
Listings(N) ==
    { l \in [1..Cardinality(N) -> N] :
        \A i, j \in 1..Cardinality(N) : i # j => l[i] # l[j] }

InitLoad ==
    /\ now \in Instants
    /\ history_dir = "present"
    /\ dir \in Directories
    /\ \A n \in DOMAIN dir : IsRecord(n) => FileDate(n) <= now   \* written earlier
    /\ byMtime \in Listings(DOMAIN dir)
    /\ benchmarks = <<>>
    /\ benchmarks_history = <<>>
    /\ benchmark_date = <<>>
    /\ ret = NoRet
    /\ calls = 0

NextLoad ==
    \/ \E period \in HistoryPeriod : Load(period) /\ Call
    \/ Tick

SpecLoad == InitLoad /\ [][NextLoad]_vars

---------------------------------------------------------------------------
(* SpecPeriod: HistoryPeriod::last on bounded clock readings *)

\* the first seconds, and the same seconds one period later, for every
\* period and beyond the longest
PeriodInstants ==
    { Secs(b) + e : b \in {0, HourSecs, DaySecs, WeekSecs, WeekSecs * 4, WeekSecs * 5},
                    e \in 0..TicksPerSec }

\* a call of HistoryPeriod::last, which reads the clock
PeriodLast(period) ==
    /\ ret' = [op |-> "last", status |-> "ok", period |-> period, at |-> now,
               value |-> HistoryPeriodLast(period, now)]
    /\ UNCHANGED <<now, history_dir, dir, byMtime, benchmarks, benchmarks_history,
                   benchmark_date, calls>>

NextPeriod ==
    \/ \E period \in HistoryPeriod : PeriodLast(period)
    \/ TickIn(PeriodInstants)

SpecPeriod == Init /\ [][NextPeriod]_vars

---------------------------------------------------------------------------
(* Claims about the selector and the variance, checked under SpecSel *)

\* the list a selector call read
InputOf(op) == IF op = "best" THEN benchmarks ELSE benchmarks_history

IsSelectorCall == ret.op \in {"best", "historical_best"}

Successful(s) == SelectSeq(s, LAMBDA v : v.success = TRUE)

HasSuccessful(s) == \E i \in 1..Len(s) : s[i].success = TRUE

\* C1: best_benchmark (through best() and historical_best()) never returns
\* a run with success = false, and the failed runs of a mixed list have no
\* influence: the run returned is the one returned for the list with its
\* failed runs removed.
C1_NeverSelectsFailedRun ==
    (IsSelectorCall /\ ret.status = "ok") =>
        /\ ret.run.success = TRUE
        /\ ret.run = BestBenchmark(Successful(InputOf(ret.op))).run

\* C1 witness: a selector call has returned a run from a list that also
\* holds a failed run with a greater requests_sec.
C1_Witness ==
    /\ IsSelectorCall /\ ret.status = "ok"
    /\ \E i \in 1..Len(InputOf(ret.op)) :
          /\ InputOf(ret.op)[i].success = FALSE
          /\ InputOf(ret.op)[i].requests_sec > ret.run.requests_sec

\* C2: for two successful runs a, b with a.requests_sec > b.requests_sec,
\* also when they differ only in the fractional part, best_benchmark over
\* [a, b] and over [b, a] returns a.
C2_GreaterRequestsSecWins ==
    ( /\ ret.op = "best"
      /\ Len(benchmarks) = 2
      /\ benchmarks[1].success /\ benchmarks[2].success
      /\ benchmarks[1].requests_sec # benchmarks[2].requests_sec )
    => /\ ret.status = "ok"
       /\ ret.run = IF benchmarks[1].requests_sec > benchmarks[2].requests_sec
                    THEN benchmarks[1] ELSE benchmarks[2]

\* x is strictly above y in the lexicographic order of the four keys
LexGreater(x, y) ==
    \/ x.requests_sec > y.requests_sec
    \/ /\ x.requests_sec = y.requests_sec
       /\ \/ x.successes > y.successes
          \/ /\ x.successes = y.successes
             /\ \/ x.requests > y.requests
                \/ /\ x.requests = y.requests
                   /\ x.transfer_mb > y.transfer_mb

\* C3: best_benchmark returns a maximal element of the successful runs under
\* the lexicographic order (requests_sec, successes, requests, transfer_mb).
C3_LexicographicMaximum ==
    (IsSelectorCall /\ ret.status = "ok") =>
        \A i \in 1..Len(InputOf(ret.op)) :
            InputOf(ret.op)[i].success => ~LexGreater(InputOf(ret.op)[i], ret.run)

\* C4: best_benchmark fails with the Stats error exactly when its input holds
\* no run with success = true (the empty input included), and variance()
\* returns that error, and no Variance, whenever the current batch or the
\* history holds no successful run.
C4_StatsErrorIffNoSuccessfulRun ==
    /\ IsSelectorCall =>
          /\ ret.status \in {"ok", "Stats"}
          /\ (ret.status = "Stats") <=> ~HasSuccessful(InputOf(ret.op))
    /\ ret.op = "variance" =>
          /\ ret.status \in {"ok", "Stats"}
          /\ (ret.status = "Stats") <=>
                (~HasSuccessful(benchmarks) \/ ~HasSuccessful(benchmarks_history))
          /\ (ret.status = "Stats") => "value" \notin DOMAIN ret

\* C4 witness: variance() has returned the Stats error with a successful
\* current run and a non-empty history of failed runs only.
C4_Witness ==
    /\ ret.op = "variance" /\ ret.status = "Stats"
    /\ HasSuccessful(benchmarks)
    /\ Len(benchmarks_history) > 0 /\ ~HasSuccessful(benchmarks_history)

\* C5: for every numeric metric m with old.m # 0, the variance field m is
\* (new.m - old.m) / old.m * 100; 150 against 100 requests_sec gives 50, and
\* a run against itself gives 0 on every metric that is non-zero.
C5_PercentageChangePerMetric ==
    (ret.op = "variance" /\ ret.status = "ok") =>
        LET v == ret.value.variance
            new == ret.value.new
            old == ret.value.old
        IN /\ \A m \in Metrics :
                old[m] # 0 =>
                    /\ DOMAIN v[m] = {"n", "d"}
                    /\ v[m].d > 0
                    /\ v[m].n * old[m] = (new[m] - old[m]) * 100 * v[m].d
           /\ (new.requests_sec = F(150) /\ old.requests_sec = F(100))
                 => v.requests_sec = [n |-> 50, d |-> 1]
           /\ new = old =>
                 \A m \in Metrics : old[m] # 0 => v[m] = [n |-> 0, d |-> 1]

\* C5 witness: variance() has compared a run of 150 requests_sec against one
\* of 100, every metric of the old run being non-zero.
C5_Witness ==
    /\ ret.op = "variance" /\ ret.status = "ok"
    /\ ret.value.new.requests_sec = F(150)
    /\ ret.value.old.requests_sec = F(100)
    /\ \A m \in Metrics : ret.value.old[m] # 0

---------------------------------------------------------------------------
(* Claims about load, checked under Spec *)

\* the file bench() wrote in this instance: it is named after benchmark_date
\* and holds the instance's runs
Own == FileName(benchmark_date[1])

BenchWroteOwn ==
    /\ benchmark_date # <<>>
    /\ benchmarks # <<>>
    /\ Own \in DOMAIN dir
    /\ dir[Own] = benchmarks

\* the file of S with the greatest file-name timestamp
MostRecent(S) == CHOOSE n \in S : \A m \in S : FileDate(m) <= FileDate(n)

\* C6: when load(Last) follows bench() in one Wrk instance and the directory
\* holds an older record, the record bench() just wrote is examined first
\* and skipped, and the history is the next-most-recent record, so never the
\* record just written.
C6_LastSkipsOwnRecord ==
    ( /\ ret.op = "load" /\ ret.period = "Last"
      /\ BenchWroteOwn
      /\ DOMAIN dir # {Own} )
    => /\ ret.status = "ok"
       /\ ret.first = Own
       /\ ret.used # Own
       /\ benchmarks_history = dir[MostRecent(DOMAIN dir \ {Own})]

\* C7: load orders the records by the timestamp in their file names: under
\* Last the record taken as most recent has the greatest file-name
\* timestamp, whatever the modification times.
C7_LastTakesGreatestFileDate ==
    (ret.op = "load" /\ ret.period = "Last" /\ ret.status = "ok")
    => ret.first = MostRecent(DOMAIN dir)

\* C8: after bench() and a windowed load, benchmarks_history holds no run
\* equal to a run of benchmarks.
C8_WindowedHistoryExcludesCurrentRuns ==
    ( /\ ret.op = "load" /\ ret.period # "Last" /\ ret.status = "ok"
      /\ BenchWroteOwn )
    => \A i \in 1..Len(benchmarks_history), j \in 1..Len(benchmarks) :
           benchmarks_history[i] # benchmarks[j]

\* the windows as the claims give them, in seconds
ClaimedWindowSecs(period) ==
    CASE period = "Last" -> 0
      [] period = "Hour" -> 60 * 60
      [] period = "Day" -> 24 * 60 * 60
      [] period = "Week" -> 7 * 24 * 60 * 60
      [] period = "Month" -> 28 * 24 * 60 * 60

\* C9: a windowed load includes a record if and only if its file-name
\* timestamp is >= the period's cutoff, now being a single instant for the
\* whole load: some instant of the load explains every record's inclusion.
C9_WindowIsOneCutoff ==
    (ret.op = "load" /\ ret.period # "Last" /\ ret.status = "ok")
    => \E t \in ret.start..ret.finish :
           ret.loaded =
               { n \in DOMAIN dir :
                   FileDate(n) >= t - Secs(ClaimedWindowSecs(ret.period)) }

---------------------------------------------------------------------------
(* Claims about load on given directories, checked under SpecLoad *)

\* C11: load on a storage location that holds no records returns a History
\* error for every period, Last included; it never panics.
C11_EmptyStorageGivesHistoryError ==
    (ret.op = "load" /\ history_dir = "present" /\ DOMAIN dir = {})
    => ret.status = "History"

\* the files of the directory that are records
Records == { n \in DOMAIN dir : IsRecord(n) }

\* C17: a windowed load skips the files that do not follow the
\* result.<timestamp>.json convention without error, and still returns the
\* results of the well-formed records in the window (each of them holding a
\* successful run).
C17_StrayFilesAreSkipped ==
    ( /\ ret.op = "load" /\ ret.period # "Last"
      /\ DOMAIN dir # Records
      /\ \A n \in Records : HasSuccessful(dir[n]) )
    => /\ ret.status = "ok"
       /\ ret.loaded \subseteq Records
       /\ \A n \in Records :
              FileDate(n) >= ret.finish - Secs(ClaimedWindowSecs(ret.period))
              => n \in ret.loaded

\* C18: with a record at T0 holding one successful run of 1000 requests/s
\* and a record at T1 = T0 + 1h holding one successful run of 1200, both in
\* the Day window, load(Day) leaves a history of exactly one run, the T1 run,
\* and comparing it with the T0 run gives +20 on requests_sec.
C18_DayLeavesTheLaterRun ==
    LET T0 == FileName(0)
        T1 == FileName(60 * 60)
    IN ( /\ ret.op = "load" /\ ret.period = "Day"
         /\ DOMAIN dir = {T0, T1}
         /\ Len(dir[T0]) = 1 /\ dir[T0][1].success
         /\ dir[T0][1].requests_sec = F(1000)
         /\ Len(dir[T1]) = 1 /\ dir[T1][1].success
         /\ dir[T1][1].requests_sec = F(1200) )
       => /\ ret.status = "ok"
          /\ benchmarks_history = dir[T1]
          /\ Calculate(benchmarks_history[1].requests_sec,
                       dir[T0][1].requests_sec) = Frac(20, 1)

\* C21: when load(Last) selects the record it examined first (no benchmark
\* was run in this instance, the record's date differs from benchmark_date,
\* or it is the only record), benchmarks_history is the complete sequence of
\* runs stored in that record, no run removed.
C21_LastKeepsTheWholeRecord ==
    ( /\ ret.op = "load" /\ ret.period = "Last" /\ ret.status = "ok"
      /\ ret.used = ret.first )
    => benchmarks_history = dir[ret.used]

---------------------------------------------------------------------------
(* Claims about bench, checked under SpecBench *)

\* the runs the bench() call that returned last pushed to benchmarks
ThisCall ==
    SubSeq(benchmarks, Len(benchmarks) - ret.executed + 1, Len(benchmarks))

\* C12: the record a bench() call writes holds exactly the runs of the
\* configurations of that call, in execution order, and no run of an earlier
\* bench() call.
C12_RecordHoldsThisCallsRuns ==
    (ret.op = "bench" /\ ret.status = "ok")
    => /\ Own \in DOMAIN dir
       /\ dir[Own] = ThisCall
       /\ Len(dir[Own]) = Len(ret.configs)

\* C13: a record, once written, keeps its content: no step removes a file of
\* the directory or changes what it holds, a bench() in the same second
\* included.
C13_RecordsNeverChange ==
    [][\A n \in DOMAIN dir : n \in DOMAIN dir' /\ dir'[n] = dir[n]]_vars

\* C14: bench() never aborts on a configuration's failure: every
\* configuration of the list is executed, each failure is recorded as a
\* failed run, and the record is persisted.
C14_FailureNeverAborts ==
    ret.op = "bench"
    => /\ ret.executed = Len(ret.configs)
       /\ \A i \in 1..ret.executed :
              ret.configs[i].kind # "json" => ~ThisCall[i].success
       /\ history_dir = "present" => (ret.status = "ok" /\ Own \in DOMAIN dir)

\* C15: every run bench() records for a failed execution has success =
\* false, every numeric metric zero and a non-empty error string.
C15_FailedRunShape ==
    ret.op = "bench"
    => \A i \in 1..ret.executed :
           ret.configs[i].kind # "json"
           => /\ ~ThisCall[i].success
              /\ \A m \in Metrics : ThisCall[i][m] = 0
              /\ ThisCall[i].error # ""

\* C16: a run parsed from the tool's output has success = true if and only
\* if errors / 100 * requests < max_error_percentage, whatever the output
\* says about success.
C16_SuccessFromPolicyOnly ==
    ret.op = "bench"
    => \A i \in 1..ret.executed :
           ret.configs[i].kind = "json"
           => (ThisCall[i].success
               <=> ret.configs[i].json.errors * ret.configs[i].json.requests
                     < MaxErrorPercentage * 100 * Scale * Scale)

\* C19: when the storage directory cannot be created, bench() still executes
\* every configuration, keeps the runs in memory and does not fail.
C19_BlockedDirectoryDoesNotFailBench ==
    ( /\ ret.op = "bench"
      /\ history_dir = "blocked"
      /\ \A i \in 1..Len(ret.configs) : ret.configs[i].kind # "no_marker" )
    => /\ ret.status = "ok"
       /\ ret.executed = Len(ret.configs)
       /\ Len(benchmarks) >= Len(ret.configs)

\* C20: bench() writes its record once and after the last configuration: a
\* call that returns an error leaves the files of the directory as they
\* were, and a call that succeeds writes the one file named after its date,
\* which holds the run of the last configuration, and no other.
C20_RecordWrittenOnceAtTheEnd ==
    [][ret'.op = "bench"
       => IF ret'.status = "ok"
          THEN LET own == FileName(benchmark_date'[1])
               IN /\ DOMAIN dir' = DOMAIN dir \cup {own}
                  /\ \A n \in DOMAIN dir \ {own} : dir'[n] = dir[n]
                  /\ dir'[own] = benchmarks'
                  /\ Last(byMtime') = own
          ELSE dir' = dir /\ byMtime' = byMtime]_vars

\* C20 witness: a bench() call returned an error after it had executed a
\* configuration, the directory holding a record.
C20_Witness ==
    /\ ret.op = "bench" /\ ret.status = "Lua"
    /\ ret.executed > 0
    /\ DOMAIN dir # {}

---------------------------------------------------------------------------
(* Claims about the period filter, checked under SpecPeriod *)

====
